---- MODULE Spec2Model ----
(* Model of quart_wtf/meta.py: the form meta class QuartFormMeta (settings    *)
(* read from the application configuration through cached properties) and    *)
(* the CSRF class _QuartFormCSRF (token generation and validation).          *)
(*                                                                           *)
(* An optional value is a sequence: <<>> is "no value" (a configuration key  *)
(* that is absent, a cached property that has not been read yet) and <<v>>   *)
(* is the value v.                                                           *)
EXTENDS Integers, Sequences, FiniteSets, TLC

VARIABLES config, extensions, meta, g, now, issued, translations, provider,
          log, lastCall

vars == <<config, extensions, meta, g, now, issued, translations, provider,
          log, lastCall>>

(* ---------------------------------------------------------------- bounds *)
(* MaxTime: last clock value; MaxTokens: tokens ever issued; MaxLog: entries *)
(* the log holds (the code only ever appends to the log and never reads it). *)
MaxTime == 2
MaxTokens == 1
MaxLog == 1

(* ------------------------------------------------------------- constants *)
(* The defaults imported from .const; the time limit is in clock ticks.      *)
DEFAULT_ENABLED == TRUE
DEFAULT_CSRF_FIELD_NAME == "csrf_token"
DEFAULT_CSRF_TIME_LIMIT == 1

(* Form slots: each slot holds the form of one request at a time. *)
Forms == {"f1", "f2"}

(* --------------------------------------------------- application config *)
(* current_app.config.get(key, default) *)
config_get(entry, default) == IF entry = <<>> THEN default ELSE entry[1]

csrf(cfg) == config_get(cfg.WTF_CSRF_ENABLED, DEFAULT_ENABLED)

csrf_secret_app(cfg) == cfg.SECRET_KEY

csrf_secret(cfg) == config_get(cfg.WTF_CSRF_SECRET_KEY, cfg.SECRET_KEY)

csrf_field_name(cfg) == config_get(cfg.WTF_CSRF_FIELD_NAME, DEFAULT_CSRF_FIELD_NAME)

csrf_time_limit_or(cfg) ==
    IF cfg.WTF_CSRF_TIME_LIMIT = <<>> \/ cfg.WTF_CSRF_TIME_LIMIT[1] = 0
    THEN DEFAULT_CSRF_TIME_LIMIT ELSE cfg.WTF_CSRF_TIME_LIMIT[1]

csrf_time_limit(cfg) == config_get(cfg.WTF_CSRF_TIME_LIMIT, DEFAULT_CSRF_TIME_LIMIT)

i18n_domain(cfg) == config_get(cfg.WTF_I18N_DOMAIN, "None")

i18n_enabled(cfg) == config_get(cfg.WTF_I18N_ENABLED, TRUE)

(* current_app.extensions['babel'] raises KeyError when nothing is           *)
(* registered under 'babel'; otherwise the truth value of the entry.         *)
i18n_babel(ext) ==
    IF ext = "absent" THEN [raised |-> TRUE, value |-> FALSE]
    ELSE [raised |-> FALSE, value |-> (ext = "truthy")]

(* werkzeug cached_property: the first read stores the computed value in the *)
(* instance, later reads return the stored value.                            *)
property_uncached(slot, computed) == <<computed>>

cached_property(slot, computed) == IF slot = <<>> THEN <<computed>> ELSE slot

NewMeta ==
    [csrf |-> <<>>, csrf_secret |-> <<>>, csrf_field_name |-> <<>>,
     csrf_time_limit |-> <<>>, i18n_babel |-> <<>>, i18n_domain |-> <<>>,
     i18n_enabled |-> <<>>]

(* ------------------------------------------------------------ CSRF tokens *)
NoToken == [kind |-> "none", secret |-> "", field |-> "", ts |-> 0]
Missing == [kind |-> "missing", secret |-> "", field |-> "", ts |-> 0]
Malformed == [kind |-> "malformed", secret |-> "", field |-> "", ts |-> 0]

(* sign(secret, field) -> token, with the embedded timestamp *)
generate_csrf(secret_key, token_key, time) ==
    [kind |-> "token", secret |-> secret_key, field |-> token_key, ts |-> time]

(* verify(token, secret, limit, field) -> "ok" or the failure reason *)
validate_csrf(data, secret_key, time_limit, token_key, time) ==
    IF data.kind # "token" THEN "bad signature"
    ELSE IF data.secret # secret_key THEN "bad signature"
    ELSE IF time - data.ts > time_limit THEN "expired"
    ELSE IF data.field # token_key THEN "field mismatch"
    ELSE "ok"

(* A submitted token field: data is the field's data; S and F record the     *)
(* secret and field name resolved by the meta of the form that generated it. *)
Submitted(data, S, F) == [data |-> data, S |-> S, F |-> F]

Forged == {Submitted(Missing, "", ""), Submitted(Malformed, "", "")}

(* ------------------------------------------------- _QuartFormCSRF pieces *)
signer_args_swapped(m) ==
    [secret_key |-> m.csrf_field_name[1], token_key |-> m.csrf_secret[1]]

(* the keyword arguments of the generate_csrf call *)
signer_args(m) ==
    [secret_key |-> m.csrf_secret[1], token_key |-> m.csrf_field_name[1]]

verifier_args_default_limit(m) ==
    [secret_key |-> m.csrf_secret[1], time_limit |-> DEFAULT_CSRF_TIME_LIMIT,
     token_key |-> m.csrf_field_name[1]]

(* the keyword arguments of the validate_csrf call *)
verifier_args(m) ==
    [secret_key |-> m.csrf_secret[1], time_limit |-> m.csrf_time_limit[1],
     token_key |-> m.csrf_field_name[1]]

already_validated_ignored(gf) == FALSE

(* g.get("csrf_valid", False) *)
already_validated(gf) == gf

except_ValidationError_swallow(reason) ==
    [logged |-> <<[level |-> "info", msg |-> reason]>>, raised |-> "none"]

except_ValidationError_nolog(reason) ==
    [logged |-> <<>>, raised |-> reason]

(* except ValidationError as error: logger.info(error.args[0]); raise *)
except_ValidationError(reason) ==
    [logged |-> <<[level |-> "info", msg |-> reason]>>, raised |-> reason]

(* lastCall is the call of the form library that has just completed, with   *)
(* what it was given and what came out; any other step clears it.            *)
NoCall ==
    [op |-> "none", form |-> "f1", data |-> NoToken, S |-> "", F |-> "",
     flag |-> FALSE, secret |-> "", field |-> "", limit |-> 0, at |-> 0,
     used |-> "", verifier |-> FALSE, verdict |-> "none", outcome |-> "none",
     error |-> "none", logged |-> 0, prop |-> "none"]

(* ------------------------------------------------------------------ Init *)
Init ==
    /\ config = [WTF_CSRF_ENABLED |-> <<>>, SECRET_KEY |-> "app",
                 WTF_CSRF_SECRET_KEY |-> <<>>, WTF_CSRF_FIELD_NAME |-> <<>>,
                 WTF_CSRF_TIME_LIMIT |-> <<>>, WTF_I18N_ENABLED |-> <<>>,
                 WTF_I18N_DOMAIN |-> <<>>]
    /\ extensions = "absent"
    /\ meta = [f \in Forms |-> NewMeta]
    /\ g = [f \in Forms |-> FALSE]
    /\ now = 0
    /\ issued = {}
    /\ translations = [domain |-> "None"]
    /\ provider = [f \in Forms |-> "none"]
    /\ log = <<>>
    /\ lastCall = NoCall

(* --------------------------------------------------------------- actions *)
(* A request instantiates its form: a fresh meta object, and a request       *)
(* context g in which CSRFProtect may already have validated the token.      *)
setup_form(f) ==
    /\ \E valid \in BOOLEAN : g' = [g EXCEPT ![f] = valid]
    /\ meta' = [meta EXCEPT ![f] = NewMeta]
    /\ provider' = [provider EXCEPT ![f] = "none"]
    /\ lastCall' = NoCall
    /\ UNCHANGED <<config, extensions, now, issued, translations, log>>

SetConfig(key, entry) ==
    /\ config[key] # entry
    /\ config' = [config EXCEPT ![key] = entry]
    /\ lastCall' = NoCall
    /\ UNCHANGED <<extensions, meta, g, now, issued, translations, provider,
                   log>>

Tick ==
    /\ now < MaxTime
    /\ now' = now + 1
    /\ lastCall' = NoCall
    /\ UNCHANGED <<config, extensions, meta, g, issued, translations, provider,
                   log>>

generate_csrf_token(f) ==
    LET m == [meta[f] EXCEPT
                !.csrf_secret = cached_property(@, csrf_secret(config)),
                !.csrf_field_name = cached_property(@, csrf_field_name(config))]
        args == signer_args(m)
        token == generate_csrf(args.secret_key, args.token_key, now)
        sub == Submitted(token, m.csrf_secret[1], m.csrf_field_name[1])
    IN /\ Cardinality(issued \cup {sub}) <= MaxTokens
       /\ meta' = [meta EXCEPT ![f] = m]
       /\ issued' = issued \cup {sub}
       /\ lastCall' = [NoCall EXCEPT !.op = "generate", !.form = f,
                          !.data = token, !.S = sub.S, !.F = sub.F,
                          !.secret = m.csrf_secret[1],
                          !.field = m.csrf_field_name[1], !.at = now,
                          !.used = args.secret_key, !.outcome = "returned"]
       /\ UNCHANGED <<config, extensions, g, now, translations, provider, log>>

validate_csrf_token(f, field) ==
    IF already_validated(g[f])
    THEN (* already validated by CSRFProtect *)
         /\ lastCall' = [NoCall EXCEPT !.op = "validate", !.form = f,
                            !.data = field.data, !.S = field.S, !.F = field.F,
                            !.flag = g[f], !.at = now, !.outcome = "returned"]
         /\ UNCHANGED <<config, extensions, meta, g, now, issued, translations,
                        provider, log>>
    ELSE LET m == [meta[f] EXCEPT
                     !.csrf_secret = cached_property(@, csrf_secret(config)),
                     !.csrf_time_limit =
                         cached_property(@, csrf_time_limit(config)),
                     !.csrf_field_name =
                         cached_property(@, csrf_field_name(config))]
             args == verifier_args(m)
             verdict == validate_csrf(field.data, args.secret_key,
                                      args.time_limit, args.token_key, now)
             handler == IF verdict = "ok"
                        THEN [logged |-> <<>>, raised |-> "none"]
                        ELSE except_ValidationError(verdict)
         IN /\ Len(log \o handler.logged) <= MaxLog
            /\ meta' = [meta EXCEPT ![f] = m]
            /\ log' = log \o handler.logged
            /\ lastCall' = [NoCall EXCEPT !.op = "validate", !.form = f,
                               !.data = field.data, !.S = field.S,
                               !.F = field.F, !.flag = g[f],
                               !.secret = m.csrf_secret[1],
                               !.field = m.csrf_field_name[1],
                               !.limit = m.csrf_time_limit[1],
                               !.at = now, !.used = args.secret_key,
                               !.verifier = TRUE, !.verdict = verdict,
                               !.outcome = IF handler.raised = "none"
                                           THEN "returned" ELSE "raised",
                               !.error = handler.raised,
                               !.logged = Len(handler.logged)]
            /\ UNCHANGED <<config, extensions, g, now, issued, translations,
                           provider>>

(* The form library (or a template) reads one setting of the form's meta. *)
Resolve(p, cfg) ==
    CASE p = "csrf" -> csrf(cfg)
      [] p = "csrf_secret" -> csrf_secret(cfg)
      [] p = "csrf_field_name" -> csrf_field_name(cfg)
      [] p = "csrf_time_limit" -> csrf_time_limit(cfg)
      [] p = "i18n_domain" -> i18n_domain(cfg)
      [] p = "i18n_enabled" -> i18n_enabled(cfg)

read_property(f, p) ==
    /\ meta' = [meta EXCEPT ![f][p] = cached_property(@, Resolve(p, config))]
    /\ lastCall' = [NoCall EXCEPT !.op = "read", !.form = f, !.prop = p,
                       !.outcome = "returned"]
    /\ UNCHANGED <<config, extensions, g, now, issued, translations, provider,
                   log>>

(* current_app.extensions gains, loses or replaces its 'babel' entry. *)
SetExtension(ext) ==
    /\ extensions # ext
    /\ extensions' = ext
    /\ lastCall' = NoCall
    /\ UNCHANGED <<config, meta, g, now, issued, translations, provider, log>>

get_translations(f) ==
    LET enabled == cached_property(meta[f].i18n_enabled, i18n_enabled(config))
        lookup == i18n_babel(extensions)
        babel == cached_property(meta[f].i18n_babel, lookup.value)
        domain == cached_property(meta[f].i18n_domain, i18n_domain(config))
        call == [NoCall EXCEPT !.op = "get_translations", !.form = f]
    IN IF ~enabled[1]
       THEN (* not self.i18n_enabled: super().get_translations(form) *)
            /\ meta' = [meta EXCEPT ![f].i18n_enabled = enabled]
            /\ provider' = [provider EXCEPT ![f] = "default"]
            /\ lastCall' = [call EXCEPT !.outcome = "returned"]
            /\ UNCHANGED <<config, extensions, g, now, issued, translations,
                           log>>
       ELSE IF meta[f].i18n_babel = <<>> /\ lookup.raised
       THEN (* KeyError out of current_app.extensions['babel'] *)
            /\ meta' = [meta EXCEPT ![f].i18n_enabled = enabled]
            /\ provider' = [provider EXCEPT ![f] = "KeyError"]
            /\ lastCall' = [call EXCEPT !.outcome = "raised",
                                        !.error = "KeyError"]
            /\ UNCHANGED <<config, extensions, g, now, issued, translations,
                           log>>
       ELSE IF babel[1]
       THEN (* self.i18n_babel: super().get_translations(form) *)
            /\ meta' = [meta EXCEPT ![f].i18n_enabled = enabled,
                                    ![f].i18n_babel = babel]
            /\ provider' = [provider EXCEPT ![f] = "default"]
            /\ lastCall' = [call EXCEPT !.outcome = "returned"]
            /\ UNCHANGED <<config, extensions, g, now, issued, translations,
                           log>>
       ELSE (* translations.domain = self.i18n_domain; return translations *)
            /\ meta' = [meta EXCEPT ![f].i18n_enabled = enabled,
                                    ![f].i18n_babel = babel,
                                    ![f].i18n_domain = domain]
            /\ translations' = [translations EXCEPT !.domain = domain[1]]
            /\ provider' = [provider EXCEPT ![f] = "translations"]
            /\ lastCall' = [call EXCEPT !.outcome = "returned"]
            /\ UNCHANGED <<config, extensions, g, now, issued, log>>

(* The CSRF token life cycle, on one form slot. *)
Next ==
    \/ setup_form("f1")
    \/ \E e \in {<<>>, <<"s1">>} : SetConfig("WTF_CSRF_SECRET_KEY", e)
    \/ \E e \in {<<>>, <<"f">>} : SetConfig("WTF_CSRF_FIELD_NAME", e)
    \/ \E e \in {<<>>, <<0>>} : SetConfig("WTF_CSRF_TIME_LIMIT", e)
    \/ Tick
    \/ generate_csrf_token("f1")
    \/ \E field \in issued \cup Forged : validate_csrf_token("f1", field)

Spec == Init /\ [][Next]_vars

(* The settings of one form, read while the configuration changes. *)
NextConfig ==
    \/ setup_form("f1")
    \/ \E e \in {<<>>, <<TRUE>>, <<FALSE>>} : SetConfig("WTF_CSRF_ENABLED", e)
    \/ \E e \in {<<>>, <<"">>, <<"f">>} : SetConfig("WTF_CSRF_FIELD_NAME", e)
    \/ \E e \in {<<>>, <<0>>, <<2>>} : SetConfig("WTF_CSRF_TIME_LIMIT", e)
    \/ \E e \in {<<>>, <<TRUE>>, <<FALSE>>} : SetConfig("WTF_I18N_ENABLED", e)
    \/ \E p \in {"csrf", "csrf_field_name", "csrf_time_limit", "i18n_enabled"} :
          read_property("f1", p)

SpecConfig == Init /\ [][NextConfig]_vars

(* Two requests, each with its own form, fetching translations. *)
NextI18n ==
    \/ \E f \in Forms : setup_form(f)
    \/ \E e \in {<<>>, <<TRUE>>, <<FALSE>>} : SetConfig("WTF_I18N_ENABLED", e)
    \/ \E e \in {<<>>, <<"d1">>, <<"d2">>} : SetConfig("WTF_I18N_DOMAIN", e)
    \/ \E ext \in {"absent", "falsy", "truthy"} : SetExtension(ext)
    \/ \E f \in Forms : get_translations(f)

SpecI18n == Init /\ [][NextI18n]_vars

(* ------------------------------------------------------------ properties *)
Validated == lastCall.op = "validate"

Elapsed == lastCall.at - lastCall.data.ts

(* C1: a token generated on a form whose meta resolved secret S and field    *)
(* name F is accepted when it is validated by a form resolving the same S    *)
(* and F, the elapsed time not exceeding the resolved time limit.            *)
C1_RoundTrip ==
    (/\ Validated /\ lastCall.data.kind = "token" /\ ~lastCall.flag
     /\ lastCall.S = lastCall.secret /\ lastCall.F = lastCall.field
     /\ Elapsed <= lastCall.limit)
    => (lastCall.outcome = "returned" /\ lastCall.error = "none")

C1_Witness ==
    /\ Validated /\ lastCall.data.kind = "token" /\ ~lastCall.flag
    /\ lastCall.S = lastCall.secret /\ lastCall.F = lastCall.field
    /\ lastCall.S = "s1" /\ lastCall.F = "f"
    /\ Elapsed = 1 /\ lastCall.limit = 1
    /\ lastCall.outcome = "returned"

(* C2: without the pre-validated flag, a token generated with secret S is    *)
(* rejected whenever the validating form resolves a different secret.        *)
C2_SecretDiffers ==
    (/\ Validated /\ lastCall.data.kind = "token" /\ ~lastCall.flag
     /\ lastCall.S # lastCall.secret)
    => (lastCall.outcome = "raised" /\ lastCall.error # "none")

C2_Witness ==
    /\ Validated /\ lastCall.data.kind = "token" /\ ~lastCall.flag
    /\ lastCall.S = "app" /\ lastCall.secret = "s1"
    /\ lastCall.F = lastCall.field /\ Elapsed = 0
    /\ lastCall.outcome = "raised"

(* C3: without the pre-validated flag a token is rejected whenever the time  *)
(* elapsed since its generation exceeds the resolved time limit, and a token *)
(* that has outlived a limit keeps having outlived it at every later time.   *)
C3_Expiry ==
    [][/\ \A s \in issued : \A L \in 0..MaxTime :
            (now - s.data.ts > L) => (now' - s.data.ts > L)
       /\ (/\ lastCall'.op = "validate" /\ lastCall'.data.kind = "token"
           /\ ~lastCall'.flag
           /\ lastCall'.at - lastCall'.data.ts > lastCall'.limit)
          => lastCall'.outcome = "raised"]_vars

C3_Witness ==
    /\ Validated /\ lastCall.data.kind = "token" /\ ~lastCall.flag
    /\ lastCall.S = lastCall.secret /\ lastCall.F = lastCall.field
    /\ Elapsed > lastCall.limit /\ lastCall.limit = 0
    /\ lastCall.outcome = "raised" /\ lastCall.error = "expired"
    /\ log = <<[level |-> "info", msg |-> "expired"]>>

(* C4: with the pre-validated flag set, validation returns for every token   *)
(* content without calling the verifier, logging or raising.                 *)
C4_PreValidated ==
    (Validated /\ lastCall.flag)
    => (/\ lastCall.outcome = "returned" /\ lastCall.error = "none"
        /\ ~lastCall.verifier /\ lastCall.logged = 0)

C4_Witness ==
    /\ Validated /\ lastCall.flag /\ lastCall.data.kind = "token"
    /\ lastCall.S # csrf_secret(config) /\ lastCall.at - lastCall.data.ts = 2
    /\ lastCall.outcome = "returned"

(* C10: a validation the verifier rejects is logged once at info level with  *)
(* the verifier's reason and raises that same error; a validation that       *)
(* returns logs nothing.                                                     *)
C10_LoggedAndRaised ==
    Validated =>
      /\ (lastCall.verifier /\ lastCall.verdict # "ok")
         => (/\ lastCall.outcome = "raised"
             /\ lastCall.error = lastCall.verdict
             /\ lastCall.logged = 1
             /\ log # <<>>
             /\ log[Len(log)] = [level |-> "info", msg |-> lastCall.verdict])
      /\ lastCall.outcome = "returned" => lastCall.logged = 0

C10_Witness ==
    /\ Validated /\ lastCall.outcome = "raised"
    /\ lastCall.error = "field mismatch"
    /\ log = <<[level |-> "info", msg |-> "field mismatch"]>>

FirstRead(f, p) == meta[f][p] = <<>> /\ meta'[f][p] # <<>>

(* C5: the CSRF-enabled, field-name, time-limit and i18n-enabled accessors    *)
(* resolve to the documented default when the key is absent and to the       *)
(* configured value when it is present, falsy values included.               *)
C5_Defaults ==
    [][\A f \in Forms :
        /\ FirstRead(f, "csrf") =>
             meta'[f].csrf[1] = (IF config.WTF_CSRF_ENABLED = <<>> THEN TRUE
                                 ELSE config.WTF_CSRF_ENABLED[1])
        /\ FirstRead(f, "csrf_field_name") =>
             meta'[f].csrf_field_name[1] =
                 (IF config.WTF_CSRF_FIELD_NAME = <<>>
                  THEN DEFAULT_CSRF_FIELD_NAME
                  ELSE config.WTF_CSRF_FIELD_NAME[1])
        /\ FirstRead(f, "csrf_time_limit") =>
             meta'[f].csrf_time_limit[1] =
                 (IF config.WTF_CSRF_TIME_LIMIT = <<>>
                  THEN DEFAULT_CSRF_TIME_LIMIT
                  ELSE config.WTF_CSRF_TIME_LIMIT[1])
        /\ FirstRead(f, "i18n_enabled") =>
             meta'[f].i18n_enabled[1] =
                 (IF config.WTF_I18N_ENABLED = <<>> THEN TRUE
                  ELSE config.WTF_I18N_ENABLED[1])]_vars

C5_Witness ==
    /\ config.WTF_CSRF_ENABLED = <<FALSE>> /\ meta["f1"].csrf = <<FALSE>>
    /\ config.WTF_CSRF_FIELD_NAME = <<"">>
    /\ meta["f1"].csrf_field_name = <<"">>
    /\ config.WTF_CSRF_TIME_LIMIT = <<0>>
    /\ meta["f1"].csrf_time_limit = <<0>>
    /\ config.WTF_I18N_ENABLED = <<>> /\ meta["f1"].i18n_enabled = <<TRUE>>

(* C6: the secret handed to the signer and to the verifier is the configured *)
(* WTF_CSRF_SECRET_KEY when that key is present and the application's        *)
(* SECRET_KEY exactly when it is absent.                                     *)
C6_Secret ==
    [][\A f \in Forms :
        FirstRead(f, "csrf_secret") =>
          /\ lastCall'.op \in {"generate", "validate"}
          /\ config.WTF_CSRF_SECRET_KEY # <<>> =>
                lastCall'.used = config.WTF_CSRF_SECRET_KEY[1]
          /\ (lastCall'.used = config.SECRET_KEY)
                <=> (config.WTF_CSRF_SECRET_KEY = <<>>)
          /\ lastCall'.op = "generate" => lastCall'.data.secret = lastCall'.used
      ]_vars

C6_Witness ==
    /\ lastCall.op = "generate" /\ lastCall.used = "s1"
    /\ lastCall.data.secret = "s1"
    /\ config.WTF_CSRF_SECRET_KEY = <<"s1">> /\ config.SECRET_KEY = "app"

(* C7: a setting keeps the value of its first read for as long as the form   *)
(* lives, whatever happens to the configuration; the signer and the verifier *)
(* get the form's cached secret; a new form resolves the configuration of    *)
(* the moment of its first read.                                             *)
C7_Cached ==
    [][\A f \in Forms :
        /\ \A p \in DOMAIN NewMeta :
              meta[f][p] # <<>> =>
                 (meta'[f][p] = meta[f][p] \/ meta'[f] = NewMeta)
        /\ (/\ meta[f].csrf_secret # <<>> /\ meta'[f] # NewMeta
            /\ lastCall'.op \in {"generate", "validate"}
            /\ lastCall'.form = f /\ ~lastCall'.flag)
           => (/\ lastCall'.used = meta[f].csrf_secret[1]
               /\ lastCall'.field = meta[f].csrf_field_name[1])
        /\ FirstRead(f, "csrf_secret") =>
              meta'[f].csrf_secret[1] = csrf_secret(config)
        /\ FirstRead(f, "csrf_field_name") =>
              meta'[f].csrf_field_name[1] = csrf_field_name(config)
        /\ FirstRead(f, "csrf_time_limit") =>
              meta'[f].csrf_time_limit[1] = csrf_time_limit(config)]_vars

C7_Witness ==
    /\ Validated /\ ~lastCall.flag /\ lastCall.data.kind = "token"
    /\ lastCall.S = "app" /\ lastCall.used = "app"
    /\ meta["f1"].csrf_secret = <<"app">>
    /\ config.WTF_CSRF_SECRET_KEY = <<"s1">>
    /\ lastCall.F = "csrf_token" /\ config.WTF_CSRF_FIELD_NAME = <<"f">>
    /\ lastCall.outcome = "returned"

(* C8: the provider a request got from get_translations stays bound to that  *)
(* request's own i18n domain, whatever the other requests do.                *)
C8_OwnDomain ==
    \A f \in Forms :
       provider[f] = "translations" =>
          translations.domain = meta[f].i18n_domain[1]

(* C9: get_translations returns the default provider when the i18n flag is   *)
(* false and the domain-bound provider when it is true, for every state of   *)
(* the babel registration, and never fails.                                  *)
C9_SelectedByFlag ==
    \A f \in Forms :
       provider[f] # "none" =>
          /\ provider[f] # "KeyError"
          /\ ~meta[f].i18n_enabled[1] => provider[f] = "default"
          /\ meta[f].i18n_enabled[1] => provider[f] = "translations"

====
